---- MODULE Spec2Model ----
(***************************************************************************)
(* State-machine model of the talk2sql front-end client.                   *)
(*                                                                         *)
(*   - the Dashboard page (text-input variant with getValidatedSuggestions *)
(*     and the number-input variant), its run/response cycle and its       *)
(*     operation switch driven by the URL's `op` parameter;                *)
(*   - the pure helper getValidatedSuggestions over arbitrary strings;     *)
(*   - the AuthProvider (signIn / signUp / signOut) over sessionStorage;   *)
(*   - the OnboardingPage and the per-user workspace settings it keeps in  *)
(*     localStorage, with the Dashboard's dialect lookup;                  *)
(*   - the QueryOutput component as a function of its props.               *)
(*                                                                         *)
(* JavaScript strings that the code inspects character by character        *)
(* (input, numSuggestionsInput) are sequences of one-character strings.    *)
(* Strings the code only passes around (messages, SQL text) are TLA+       *)
(* strings.  A JavaScript object is a record whose DOMAIN is the set of    *)
(* its defined keys.                                                       *)
(***************************************************************************)
EXTENDS Integers, Sequences, FiniteSets, TLC

VARIABLES
    \* ---- Dashboard component state (useState hooks) ----
    variant,                      \* which Dashboard source file is mounted
    searchParams,                 \* the URL's `op` parameter (NoParam when absent)
    operation,
    input,
    isLoading,
    output,
    error,
    numSuggestionsInput,          \* text variant: raw text of the count field
    numSuggestionsWasValidated,   \* text variant: blurred/submitted since last keystroke
    numSuggestions,               \* number variant: numeric state of the count field
    databaseType,                 \* text variant: dialect read from storage at mount
    inFlight,                     \* fetch() calls sent and not yet settled
    \* ---- evaluation of getValidatedSuggestions on an arbitrary string ----
    clampArg,
    clampOut,
    \* ---- AuthProvider state ----
    user,
    authIsLoading,
    sessionStorage,               \* the `auth_user` entry of sessionStorage
    authCalls,                    \* signIn / signUp calls awaiting their response
    authLast,                     \* how the most recently settled auth call ended
    authThrew,                    \* the useState initializer of AuthProvider threw
    \* ---- workspace settings and the OnboardingPage ----
    localStorage,                 \* the three per-user keys, by key suffix
    location,                     \* the route shown
    toast,                        \* title of the toast the latest step showed
    obUpload,                     \* the handleComplete call awaiting its response
    dashUserEmail,                \* userEmail of the Dashboard's databaseType initializer
    userEmail,                    \* OnboardingPage: userEmail of the latest render
    database,
    schema,
    obIsLoading,                  \* OnboardingPage: isLoading
    onboardingCompleted,
    \* ---- evaluation of the QueryOutput component on arbitrary props ----
    outputVariant,                \* which QueryOutput source file is evaluated
    renderProps,
    rendered

dashVars  == <<variant, searchParams, operation, input, isLoading, output, error,
               numSuggestionsInput, numSuggestionsWasValidated, numSuggestions,
               databaseType, inFlight>>
clampVars == <<clampArg, clampOut>>
authVars  == <<user, authIsLoading, sessionStorage, authCalls, authLast, authThrew>>
pageVars  == <<userEmail, database, schema, obIsLoading, onboardingCompleted>>
obVars    == <<localStorage, location, toast, obUpload, dashUserEmail, pageVars>>
renderVars == <<outputVariant, renderProps, rendered>>
vars      == <<dashVars, clampVars, authVars, obVars, renderVars>>

----------------------------------------------------------------------------
(* Bounds of the model                                                     *)

\* longest text typed into the query textarea
MaxInputLen == 1
\* longest string handed to getValidatedSuggestions in SpecClamp
MaxClampLen == 3
\* most signIn/signUp calls outstanding at once
MaxAuthCalls == 2

SeqsUpTo(S, n) == UNION {[1..k -> S] : k \in 0..n}

InputChars == {" ", "q"}
ClampChars == {"0", "1", "5", "7", "-", "+", " ", "a"}

----------------------------------------------------------------------------
(* JavaScript string and number helpers                                    *)

Digits == {"0", "1", "2", "3", "4", "5", "6", "7", "8", "9"}
WhiteSpace == {" "}

DigitValue(c) ==
    CASE c = "0" -> 0 [] c = "1" -> 1 [] c = "2" -> 2 [] c = "3" -> 3
      [] c = "4" -> 4 [] c = "5" -> 5 [] c = "6" -> 6 [] c = "7" -> 7
      [] c = "8" -> 8 [] c = "9" -> 9

DigitChar(d) ==
    CASE d = 0 -> "0" [] d = 1 -> "1" [] d = 2 -> "2" [] d = 3 -> "3"
      [] d = 4 -> "4" [] d = 5 -> "5" [] d = 6 -> "6" [] d = 7 -> "7"
      [] d = 8 -> "8" [] d = 9 -> "9"

Max(a, b) == IF a >= b THEN a ELSE b
Min(a, b) == IF a <= b THEN a ELSE b

RECURSIVE StripLeft(_)
StripLeft(s) ==
    IF s # <<>> /\ Head(s) \in WhiteSpace THEN StripLeft(Tail(s)) ELSE s

RECURSIVE StripRight(_)
StripRight(s) ==
    IF s # <<>> /\ s[Len(s)] \in WhiteSpace
    THEN StripRight(SubSeq(s, 1, Len(s) - 1))
    ELSE s

\* String.prototype.trim
trim(s) == StripRight(StripLeft(s))

RECURSIVE DigitPrefix(_)
DigitPrefix(s) ==
    IF s # <<>> /\ Head(s) \in Digits
    THEN <<Head(s)>> \o DigitPrefix(Tail(s))
    ELSE <<>>

RECURSIVE DigitsToNat(_)
DigitsToNat(d) ==
    IF d = <<>> THEN 0
    ELSE 10 * DigitsToNat(SubSeq(d, 1, Len(d) - 1)) + DigitValue(d[Len(d)])

\* A JavaScript number as far as parseInt produces one: NaN or an integer.
NaN == [nan |-> TRUE, val |-> 0]
Num(n) == [nan |-> FALSE, val |-> n]
isNaN(p) == p.nan

\* parseInt(val, 10): skip leading white space, take an optional sign, then the
\* longest run of decimal digits; NaN when that run is empty.
parseInt(val) ==
    LET t    == StripLeft(val)
        sgn  == IF t # <<>> /\ Head(t) = "-" THEN -1 ELSE 1
        body == IF t # <<>> /\ Head(t) \in {"+", "-"} THEN Tail(t) ELSE t
        d    == DigitPrefix(body)
    IN  IF d = <<>> THEN NaN ELSE Num(sgn * DigitsToNat(d))

RECURSIVE NatToString(_)
NatToString(n) ==
    IF n < 10 THEN <<DigitChar(n)>>
    ELSE NatToString(n \div 10) \o <<DigitChar(n % 10)>>

\* Number.prototype.toString for an integer
toString(n) == IF n < 0 THEN <<"-">> \o NatToString(-n) ELSE NatToString(n)

----------------------------------------------------------------------------
(* JavaScript values received from the server                              *)

\* A JSON value the code coerces: a string, or an object (whose String() is
\* "[object Object]").
Str(t) == [type |-> "string", text |-> t]
Obj(t) == [type |-> "object", text |-> t]
ToStringJS(v) == IF v.type = "object" THEN "[object Object]" ELSE v.text

\* obj.key as a string-or-falsy chain element: "" stands for a falsy value
FieldOr(obj, key, dflt) ==
    IF key \in DOMAIN obj /\ obj[key] # "" THEN obj[key] ELSE dflt

\* new Error(errorData.detail || errorData.message || fallback).message
ErrorMessage(errorData, fallback) ==
    IF "detail" \in DOMAIN errorData /\ ToStringJS(errorData.detail) # ""
    THEN ToStringJS(errorData.detail)
    ELSE IF "message" \in DOMAIN errorData /\ ToStringJS(errorData.message) # ""
         THEN ToStringJS(errorData.message)
         ELSE fallback

\* Success bodies of the query endpoints (fields may be missing).
QueryBodies ==
    { [sql |-> "SELECT 1", explanation |-> "why"],
      [queries |-> <<[sql |-> "SELECT 2", title |-> "next"]>>, notes |-> "note"],
      [status |-> "ok"] }

\* errorData of a non-2xx response: the parsed JSON body, or {} when it does
\* not parse (the .catch(() => ({})) of the code).
ErrorBodies ==
    { [detail |-> Str("Invalid SQL")],
      [detail |-> Obj("schema_parse_failed")],
      [status |-> "error"] }

\* How one fetch() call can end.
Outcomes ==
    { [kind |-> "ok", data |-> b] : b \in QueryBodies }
      \cup { [kind |-> "http_error", data |-> b] : b \in ErrorBodies }
      \cup { [kind |-> "network_error", data |-> [status |-> "none"]],
             [kind |-> "bad_json", data |-> [status |-> "none"]] }

----------------------------------------------------------------------------
(* Dashboard                                                               *)

OpCodes == {"generate", "fix", "explain", "optimize", "suggest", "join"}
\* searchParams.get('op') returns null when the URL has no op parameter (an
\* empty op value is falsy like null and takes the same path of the effect)
NoParam == "<none>"
\* what the URL may carry: nothing, a known code, or any other text
UrlOps == OpCodes \cup {NoParam, "bogus"}

\* output === null
NullOutput == [null |-> TRUE]

BlankInputMessage == "Please enter a query or description"

InputTexts == SeqsUpTo(InputChars, MaxInputLen)
\* e.target.value of the text count field after an edit: the texts of the
\* specification's examples, a non-digit text and a signed one
TypedTexts ==
    { <<>>, <<"0">>, <<"7">>, <<"1", "2">>, <<"1", "5">>, <<"7", "a">>,
      <<"-", "3">> }

\* /^\d*$/.test(v)
AllDigits(v) == \A i \in 1..Len(v) : v[i] \in Digits

\* e.target.value of an <input type="number">: a valid number text, or ""
\* (the min/max attributes do not restrict what is typed)
NumberTexts == { <<>>, <<"0">>, <<"7">>, <<"1", "5">>, <<"-", "3">> }

\* getValidatedSuggestions without its lower clamp
getValidatedSuggestionsNoFloor(val) ==
    LET parsed == parseInt(val)
    IN  IF val = <<>> \/ isNaN(parsed) THEN 5
        ELSE Min(10, parsed.val)

getValidatedSuggestions(val) ==
    LET parsed == parseInt(val)
    IN  IF val = <<>> \/ isNaN(parsed) THEN 5
        ELSE Max(1, Min(10, parsed.val))

\* the effect without its setError('')
useEffectKeepsError(op, st) ==
    IF op # NoParam
    THEN [operation |-> op, input |-> <<>>, output |-> NullOutput,
          error |-> st.error]
    ELSE st

\* The body of the effect on [searchParams], as a function of the op
\* parameter and of the four pieces of state it may set.
useEffectSearchParams(op, st) ==
    IF op # NoParam
    THEN [operation |-> op, input |-> <<>>, output |-> NullOutput, error |-> ""]
    ELSE st

DashState == [operation |-> operation, input |-> input, output |-> output,
              error |-> error]

Endpoint(v, op) ==
    LET prefix == IF v = "text" THEN "/api" ELSE ""
        path == CASE op = "fix" -> "/fix-sql"
                  [] op = "explain" -> "/explain-sql"
                  [] op = "optimize" -> "/optimize-sql"
                  [] op = "suggest" -> "/suggest-next"
                  [] OTHER -> "/generate-sql"
    IN  <<prefix, path>>

\* The JSON body of the request (JSON.stringify drops undefined members).
Payload(v, op, text, count, dbType) ==
    LET base == IF v = "text"
                THEN [db_key |-> "default", max_rows |-> 100, database_type |-> dbType]
                ELSE [db_key |-> "default", max_rows |-> 100]
        field == IF op = "generate" THEN [question |-> text] ELSE [sql |-> text]
        sugg == IF op = "suggest" THEN field @@ [max_suggestions |-> count] ELSE field
    IN  sugg @@ base

\* The suggestion count handleRunQuery puts into the request.
SubmittedSuggestions ==
    IF variant = "text" THEN getValidatedSuggestions(numSuggestionsInput)
    ELSE numSuggestions

\* setOutput(...) with the sql/explanation shape for every operation
NormalizeOutputSameShape(op, data) ==
    [sql |-> FieldOr(data, "sql", ""),
     explanation |-> FieldOr(data, "explanation", "")]

\* setOutput(...) after a successful response, by the operation the run
\* was started with.
NormalizeOutput(op, data) ==
    IF op = "suggest"
    THEN [suggestions |-> IF "queries" \in DOMAIN data THEN data.queries ELSE <<>>,
          explanation |-> FieldOr(data, "notes", "")]
    ELSE [sql |-> FieldOr(data, "sql", ""),
          explanation |-> FieldOr(data, "explanation", "")]

\* err.message || 'An unexpected error occurred' in the catch block
CaughtMessage(outcome) ==
    LET m == CASE outcome.kind = "http_error" ->
                      ErrorMessage(outcome.data, "Failed to process query")
               [] outcome.kind = "network_error" -> "Failed to fetch"
               [] OTHER -> "Unexpected token in JSON"
    IN  IF m # "" THEN m ELSE "An unexpected error occurred"

RemoveAt(s, i) == SubSeq(s, 1, i - 1) \o SubSeq(s, i + 1, Len(s))

DashInit ==
    /\ variant \in {"text", "number"}
    /\ searchParams \in UrlOps
    /\ operation = useEffectSearchParams(searchParams,
                       [operation |-> "generate", input |-> <<>>,
                        output |-> NullOutput, error |-> ""]).operation
    /\ input = <<>>
    /\ isLoading = FALSE
    /\ output = NullOutput
    /\ error = ""
    /\ numSuggestionsInput = <<"5">>
    /\ numSuggestionsWasValidated = FALSE
    /\ numSuggestions = 5
    /\ databaseType = "mysql"
    /\ inFlight = <<>>

\* The URL's search string changes; the effect on [searchParams] runs.
Navigate(op) ==
    /\ op # searchParams
    /\ searchParams' = op
    /\ LET st == useEffectSearchParams(op, DashState)
       IN  /\ operation' = st.operation
           /\ input' = st.input
           /\ output' = st.output
           /\ error' = st.error
    /\ UNCHANGED <<variant, isLoading, numSuggestionsInput,
                   numSuggestionsWasValidated, numSuggestions, databaseType,
                   inFlight>>

\* QueryInput onChange -> setInput
setInput(v) ==
    /\ v # input
    /\ input' = v
    /\ UNCHANGED <<variant, searchParams, operation, isLoading, output, error,
                   numSuggestionsInput, numSuggestionsWasValidated,
                   numSuggestions, databaseType, inFlight>>

\* a run Button without disabled={isLoading}
RunAlwaysEnabled == TRUE

\* Whether the run Button accepts a click (disabled={isLoading}).
RunEnabled == ~isLoading

\* the blank check without trim()
IsBlankNoTrim(text) == text = <<>>

\* if (!input.trim())
IsBlank(text) == trim(text) = <<>>

\* a run start without setOutput(null)
OutputKeptAtRunStart == output

\* setOutput(null) when a run starts
OutputAtRunStart == NullOutput

handleRunQuery ==
    /\ RunEnabled
    /\ IF IsBlank(input)
       THEN /\ error' = BlankInputMessage
            /\ UNCHANGED <<isLoading, output, numSuggestionsInput,
                           numSuggestionsWasValidated, inFlight>>
       ELSE /\ error' = ""
            /\ isLoading' = TRUE
            /\ output' = OutputAtRunStart
            /\ IF variant = "text"
               THEN /\ numSuggestionsInput' =
                          toString(getValidatedSuggestions(numSuggestionsInput))
                    /\ numSuggestionsWasValidated' = TRUE
               ELSE UNCHANGED <<numSuggestionsInput, numSuggestionsWasValidated>>
            /\ inFlight' = Append(inFlight,
                   [operation |-> operation,
                    endpoint |-> Endpoint(variant, operation),
                    payload |-> Payload(variant, operation, input,
                                        SubmittedSuggestions, databaseType)])
    /\ UNCHANGED <<variant, searchParams, operation, input, numSuggestions,
                   databaseType>>

\* The continuation of handleRunQuery after its fetch settles.
handleResponse(i, outcome) ==
    /\ i \in 1..Len(inFlight)
    /\ LET req == inFlight[i]
       IN  IF outcome.kind = "ok"
           THEN /\ output' = NormalizeOutput(req.operation, outcome.data)
                /\ error' = error
           ELSE /\ error' = CaughtMessage(outcome)
                /\ output' = output
    /\ isLoading' = FALSE
    /\ inFlight' = RemoveAt(inFlight, i)
    /\ UNCHANGED <<variant, searchParams, operation, input, numSuggestionsInput,
                   numSuggestionsWasValidated, numSuggestions, databaseType>>

\* the onChange without its setNumSuggestionsWasValidated(false)
handleNumSuggestionsChangeKeepsFlag(v) ==
    /\ variant = "text"
    /\ operation = "suggest"
    /\ v # numSuggestionsInput
    /\ numSuggestionsInput' = IF v = <<>> \/ AllDigits(v) THEN v
                              ELSE numSuggestionsInput
    /\ UNCHANGED <<variant, searchParams, operation, input, isLoading, output,
                   error, numSuggestions, numSuggestionsWasValidated,
                   databaseType, inFlight>>

\* text variant: onChange of the suggestion-count field
handleNumSuggestionsChange(v) ==
    /\ variant = "text"
    /\ operation = "suggest"
    /\ v # numSuggestionsInput
    /\ numSuggestionsWasValidated' = FALSE
    /\ numSuggestionsInput' = IF v = <<>> \/ AllDigits(v) THEN v
                              ELSE numSuggestionsInput
    /\ UNCHANGED <<variant, searchParams, operation, input, isLoading, output,
                   error, numSuggestions, databaseType, inFlight>>

\* text variant: onBlur of the suggestion-count field
handleNumSuggestionsBlur ==
    /\ variant = "text"
    /\ operation = "suggest"
    /\ numSuggestionsInput' = toString(getValidatedSuggestions(numSuggestionsInput))
    /\ numSuggestionsWasValidated' = TRUE
    /\ UNCHANGED <<variant, searchParams, operation, input, isLoading, output,
                   error, numSuggestions, databaseType, inFlight>>

\* isCurrentlyInvalid of the render: comparisons with NaN are false
isCurrentlyInvalid ==
    LET parsed == parseInt(numSuggestionsInput)
    IN  \/ numSuggestionsInput = <<>>
        \/ ~isNaN(parsed) /\ parsed.val < 1
        \/ ~isNaN(parsed) /\ parsed.val > 10

\* the error styling of the suggestion-count field
showVisualError == numSuggestionsWasValidated /\ isCurrentlyInvalid

\* number variant: onChange of the <input type="number">
setNumSuggestions(v) ==
    /\ variant = "number"
    /\ operation = "suggest"
    /\ LET p == parseInt(v)
       IN  numSuggestions' = IF isNaN(p) \/ p.val = 0 THEN 5 ELSE p.val
    /\ UNCHANGED <<variant, searchParams, operation, input, isLoading, output,
                   error, numSuggestionsInput, numSuggestionsWasValidated,
                   databaseType, inFlight>>

\* The Dashboard as mounted on /dashboard with no op parameter.
DashIdle ==
    /\ variant = "text"
    /\ searchParams = NoParam
    /\ operation = "generate"
    /\ input = <<>>
    /\ isLoading = FALSE
    /\ output = NullOutput
    /\ error = ""
    /\ numSuggestionsInput = <<"5">>
    /\ numSuggestionsWasValidated = FALSE
    /\ numSuggestions = 5
    /\ databaseType = "mysql"
    /\ inFlight = <<>>

----------------------------------------------------------------------------
(* getValidatedSuggestions applied to an arbitrary string                  *)

ClampTexts == SeqsUpTo(ClampChars, MaxClampLen)

\* clampOut is <<>> until the function has been applied, then <<result>>
ClampIdle == clampArg = <<>> /\ clampOut = <<0>>

ClampInit == clampArg \in ClampTexts /\ clampOut = <<>>

Validate ==
    /\ clampOut = <<>>
    /\ clampOut' = <<getValidatedSuggestions(clampArg)>>
    /\ UNCHANGED clampArg

----------------------------------------------------------------------------
(* AuthProvider                                                            *)

Emails == {"a@x.com", "b@y.com"}

\* user === null
NoUser == [null |-> TRUE]

\* user objects a login response may carry
ServerUsers == { [email |-> "a@x.com", name |-> "Ann"], [email |-> "b@y.com"] }

\* Success bodies of /api/login and /api/signup
LoginBodies == { [user |-> u] : u \in ServerUsers } \cup { [status |-> "ok"] }

\* errorData of a non-2xx answer of /api/login and /api/signup
AuthErrorBodies == ErrorBodies \cup { [message |-> Str("Bad credentials")] }

AuthOutcomes ==
    { [kind |-> "ok", data |-> b] : b \in LoginBodies }
      \cup { [kind |-> "http_error", data |-> b] : b \in AuthErrorBodies }
      \cup { [kind |-> "network_error", data |-> [status |-> "none"]],
             [kind |-> "bad_json", data |-> [status |-> "none"]] }

\* JSON.stringify of a user object: its defined members, in order, as text
KeyOrder == <<"email", "name">>
RECURSIVE StringifyFrom(_, _)
StringifyFrom(obj, i) ==
    IF i > Len(KeyOrder) THEN <<>>
    ELSE (IF KeyOrder[i] \in DOMAIN obj
          THEN <<<<KeyOrder[i], obj[KeyOrder[i]]>>>>
          ELSE <<>>) \o StringifyFrom(obj, i + 1)
JSONstringify(obj) == StringifyFrom(obj, 1)

\* a stored text that JSON.parse rejects with a SyntaxError
Garbage == <<<<"{oops">>>>
IsJSON(text) == \A i \in 1..Len(text) : Len(text[i]) = 2

\* JSON.parse of a well-formed text
JSONparse(text) ==
    [k \in {text[i][1] : i \in 1..Len(text)} |->
        (CHOOSE p \in {text[i] : i \in 1..Len(text)} : p[1] = k)[2]]

\* sessionStorage.getItem('auth_user'): absent, or a text
NoEntry == [present |-> FALSE, text |-> <<>>]
Entry(t) == [present |-> TRUE, text |-> t]

\* userData built from the submitted email alone
UserDataIgnoresServer(data, email) == [email |-> email]

\* const userData = data.user || { email }
UserDataOf(data, email) ==
    IF "user" \in DOMAIN data THEN data.user ELSE [email |-> email]

\* how an auth call ended, as its caller sees it.  `others` counts the calls
\* still awaiting their response at that moment; `over` is the identity a
\* successful signIn had stored while this call was already awaiting its own
\* response (NoUser when there was none).
NoSettled == [fn |-> "none", result |-> "none", email |-> "",
              data |-> [status |-> "none"], message |-> "",
              others |-> 0, over |-> NoUser]
Settled(i, result, data, message) ==
    [fn |-> authCalls[i].fn, result |-> result, email |-> authCalls[i].email,
     data |-> data, message |-> message,
     others |-> Len(authCalls) - 1,
     over |-> IF /\ i <= authLast.others
                 /\ authLast.fn = "signIn"
                 /\ authLast.result = "resolved"
              THEN UserDataOf(authLast.data, authLast.email)
              ELSE NoUser]

\* the message of the Error an auth call rejects with
AuthFailure(fn, outcome) ==
    CASE outcome.kind = "http_error" ->
             ErrorMessage(outcome.data,
                          IF fn = "signIn" THEN "Login failed" ELSE "Signup failed")
      [] outcome.kind = "network_error" -> "Failed to fetch"
      [] OTHER -> "Unexpected token in JSON"

AuthIdle ==
    /\ user = NoUser
    /\ authIsLoading = FALSE
    /\ sessionStorage = NoEntry
    /\ authCalls = <<>>
    /\ authLast = NoSettled
    /\ authThrew = FALSE

\* what sessionStorage may hold under `auth_user` when the page loads
SavedEntries ==
    {NoEntry, Entry(Garbage)} \cup
        { Entry(JSONstringify(u)) :
            u \in ServerUsers \cup { [email |-> e] : e \in Emails } }

\* useState initializer: saved ? JSON.parse(saved) : null
AuthInit ==
    /\ sessionStorage \in SavedEntries
    /\ authThrew = (sessionStorage.present /\ ~IsJSON(sessionStorage.text))
    /\ user = IF sessionStorage.present /\ IsJSON(sessionStorage.text)
              THEN JSONparse(sessionStorage.text)
              ELSE NoUser
    /\ authIsLoading = FALSE
    /\ authCalls = <<>>
    /\ authLast = NoSettled

\* signIn / signUp up to their await fetch(...)
AuthCall(fn, email) ==
    /\ ~authThrew
    /\ Len(authCalls) < MaxAuthCalls
    /\ authIsLoading' = TRUE
    /\ authCalls' = Append(authCalls, [fn |-> fn, email |-> email])
    /\ UNCHANGED <<user, sessionStorage, authLast, authThrew>>

signIn(email) == AuthCall("signIn", email)
signUp(email) == AuthCall("signUp", email)

\* the state kept when a later response arrives after an identity is set
setUserKeepsFirst(current, value) == IF current = NoUser THEN value ELSE current

\* setUser(value): the state becomes the value passed
setUser(current, value) == value

\* the continuation of signIn after its fetch settles
signInSettles(i, outcome) ==
    /\ i \in 1..Len(authCalls)
    /\ authCalls[i].fn = "signIn"
    /\ IF outcome.kind = "ok"
       THEN LET userData == UserDataOf(outcome.data, authCalls[i].email)
            IN  /\ user' = setUser(user, userData)
                /\ sessionStorage' = Entry(JSONstringify(userData))
                /\ authLast' = Settled(i, "resolved", outcome.data, "")
       ELSE /\ UNCHANGED <<user, sessionStorage>>
            /\ authLast' = Settled(i, "rejected", outcome.data,
                                   AuthFailure("signIn", outcome))
    /\ authIsLoading' = FALSE
    /\ authCalls' = RemoveAt(authCalls, i)
    /\ UNCHANGED authThrew

\* signUp storing the identity of a successful response
signUpSetsUser(current, data, email) == UserDataOf(data, email)

\* what signUp leaves in `user` on success: the setUser call is commented out
signUpUser(current, data, email) == current

\* the continuation of signUp after its fetch settles
signUpSettles(i, outcome) ==
    /\ i \in 1..Len(authCalls)
    /\ authCalls[i].fn = "signUp"
    /\ IF outcome.kind = "ok"
       THEN /\ authLast' = Settled(i, "resolved", outcome.data, "")
            /\ user' = signUpUser(user, outcome.data, authCalls[i].email)
       ELSE /\ authLast' = Settled(i, "rejected", outcome.data,
                                   AuthFailure("signUp", outcome))
            /\ user' = user
    /\ authIsLoading' = FALSE
    /\ authCalls' = RemoveAt(authCalls, i)
    /\ UNCHANGED <<sessionStorage, authThrew>>

\* an entry that survives removal
removeItemKeeps(entry) == entry

\* sessionStorage.removeItem('auth_user')
removeItem(entry) == NoEntry

signOut ==
    /\ ~authThrew
    /\ user' = NoUser
    /\ sessionStorage' = removeItem(sessionStorage)
    /\ UNCHANGED <<authIsLoading, authCalls, authLast, authThrew>>

----------------------------------------------------------------------------
(* Workspace settings in localStorage and the OnboardingPage               *)

\* the suffix of the three per-user keys: an email, or the literal 'default'
Suffixes == Emails \cup {"default"}

\* dialects picked in the model (the page also offers sqlite)
DatabaseTypes == {"mysql", "postgresql"}

\* texts typed into the schema textarea
SchemaTexts == { <<>>, <<" ">>, <<"s">> }

\* localStorage.getItem(...) === null
Null == "<null>"

\* the three keys of one suffix, none of them set
NoSettings ==
    [selected_db |-> Null, last_schema |-> NoEntry, onboarding_completed |-> Null]

\* every identity reading and writing the keys of 'default'
KeySuffixShared(email) == "default"

\* `selected_db_${userEmail}`: the key is the prefix followed by the email
KeySuffix(email) == email

\* value || dflt on what getItem returned
getItemOr(item, dflt) == IF item = Null \/ item = "" THEN dflt ELSE item

\* OnboardingPage: const userEmail = (() => { ... })()
UserEmailOf(saved, u) ==
    IF saved.present /\ IsJSON(saved.text)
    THEN JSONparse(saved.text).email
    ELSE IF u # NoUser THEN u.email ELSE "default"

\* Dashboard: let userEmail = 'default'; if (savedUser) try { ... } catch
DashUserEmailOf(saved) ==
    IF saved.present /\ IsJSON(saved.text)
    THEN JSONparse(saved.text).email
    ELSE "default"

\* the useState initializers and the effect on [userEmail]
LoadSettings(ls, email) ==
    LET keys == ls[KeySuffix(email)]
    IN  [database |-> getItemOr(keys.selected_db, "mysql"),
         schema |-> IF keys.last_schema.present THEN keys.last_schema.text
                    ELSE <<>>,
         onboardingCompleted |-> (keys.onboarding_completed = "true")]

\* Dashboard: localStorage.getItem(`selected_db_${userEmail}`) || 'mysql'
DashDatabaseType(ls, email) == getItemOr(ls[KeySuffix(email)].selected_db, "mysql")

\* a save that leaves the schema text out
SaveWritesNoSchema(ls, email, db, sc) ==
    [ls EXCEPT ![KeySuffix(email)] =
        [@ EXCEPT !.onboarding_completed = "true", !.selected_db = db]]

\* a save that leaves the completion flag out
SaveWritesNoFlag(ls, email, db, sc) ==
    [ls EXCEPT ![KeySuffix(email)] =
        [@ EXCEPT !.selected_db = db, !.last_schema = Entry(sc)]]

\* handleComplete: the three setItem calls after a successful upload
SaveWrites(ls, email, db, sc) ==
    [ls EXCEPT ![KeySuffix(email)] =
        [onboarding_completed |-> "true", selected_db |-> db,
         last_schema |-> Entry(sc)]]

\* handleSkip: its two setItem calls
SkipWrites(ls, email, db) ==
    [ls EXCEPT ![KeySuffix(email)] =
        [@ EXCEPT !.onboarding_completed = "true", !.selected_db = db]]

\* errorData.detail as an object with an error code and a message
Detail(code, msg) == [type |-> "object", error |-> code, message |-> msg]

\* How a POST /upload-schema can end.
UploadOutcomes ==
    { [kind |-> "ok", data |-> [status |-> "success"]],
      [kind |-> "ok", data |-> [warning |-> "dialect uncertain"]],
      [kind |-> "http_error",
       data |-> [detail |-> Detail("schema_dialect_mismatch", "looks like PostgreSQL")]],
      [kind |-> "http_error",
       data |-> [detail |-> Detail("schema_parse_failed", "Could not parse schema")]],
      [kind |-> "http_error", data |-> [detail |-> Detail("too_large", "Schema too large")]],
      [kind |-> "http_error", data |-> [detail |-> Str("Bad request")]],
      [kind |-> "http_error", data |-> [status |-> "error"]],
      [kind |-> "network_error", data |-> [status |-> "none"]],
      [kind |-> "bad_json", data |-> [status |-> "none"]] }

\* a failed upload treated like a successful one
UploadSucceededAlways(outcome) == TRUE

\* response.ok and a body that parses
UploadSucceeded(outcome) == outcome.kind = "ok"

\* the title of the toast handleComplete shows for an outcome
UploadToast(outcome, wasCompleted) ==
    CASE outcome.kind = "ok" /\ "warning" \in DOMAIN outcome.data ->
             "Schema Uploaded with Warning"
      [] outcome.kind = "ok" /\ wasCompleted -> "Schema updated successfully!"
      [] outcome.kind = "ok" -> "Onboarding completed!"
      [] /\ outcome.kind = "http_error"
         /\ "detail" \in DOMAIN outcome.data
         /\ outcome.data.detail.type = "object"
         /\ outcome.data.detail.error = "schema_dialect_mismatch" ->
             "Schema Dialect Mismatch"
      [] /\ outcome.kind = "http_error"
         /\ "detail" \in DOMAIN outcome.data
         /\ outcome.data.detail.type = "object"
         /\ outcome.data.detail.error = "schema_parse_failed" ->
             outcome.data.detail.message
      [] OTHER -> "Upload Failed"

\* no handleComplete call awaiting its response
NoUpload == [pending |-> FALSE]
\* the closure of a handleComplete call awaiting its response; `live` tells
\* whether the component instance that made the call is still mounted
Upload(email, db, sc, completed) ==
    [pending |-> TRUE, userEmail |-> email, database |-> db, schema |-> sc,
     onboardingCompleted |-> completed, live |-> TRUE]

\* Dashboard state other than the dialect read at mount
dashRest == <<variant, searchParams, operation, input, isLoading, output, error,
              numSuggestionsInput, numSuggestionsWasValidated, numSuggestions,
              inFlight>>

\* no page of the workspace is mounted and nothing is stored
WorkspaceIdle ==
    /\ localStorage = [k \in Suffixes |-> NoSettings]
    /\ location = "/"
    /\ toast = "none"
    /\ obUpload = NoUpload
    /\ dashUserEmail = "default"
    /\ userEmail = "default"
    /\ database = "mysql"
    /\ schema = <<>>
    /\ obIsLoading = FALSE
    /\ onboardingCompleted = FALSE

\* the OnboardingPage is not mounted
PageUnmounted ==
    /\ userEmail' = "default"
    /\ database' = "mysql"
    /\ schema' = <<>>
    /\ obIsLoading' = FALSE
    /\ onboardingCompleted' = FALSE

\* the Dashboard is not mounted
DashboardUnmounted == databaseType' = "mysql" /\ dashUserEmail' = "default"

\* OnboardingPage renders under `email`: the initializers at mount, and the
\* effect on [userEmail], load the three keys.  (The effect also posts the
\* stored schema again when there is one; it ignores the answer, so the post
\* changes nothing here.)
PageShows(email, ls) ==
    LET s == LoadSettings(ls, email)
    IN  /\ userEmail' = email
        /\ database' = s.database
        /\ schema' = s.schema
        /\ onboardingCompleted' = s.onboardingCompleted

\* Dashboard mounts: the databaseType initializer
DashboardShows(ls, saved) ==
    /\ dashUserEmail' = DashUserEmailOf(saved)
    /\ databaseType' = DashDatabaseType(ls, DashUserEmailOf(saved))

\* the browser loads the application afresh: AuthProvider is constructed
\* again, calls awaiting a response are gone with their callers, no toast is
\* shown
PageLoad ==
    /\ ~authThrew
    /\ user' = IF sessionStorage.present /\ IsJSON(sessionStorage.text)
               THEN JSONparse(sessionStorage.text)
               ELSE NoUser
    /\ authIsLoading' = FALSE
    /\ authCalls' = <<>>
    /\ authLast' = NoSettled
    /\ toast' = "none"
    /\ obUpload' = NoUpload
    /\ UNCHANGED <<sessionStorage, authThrew, localStorage, dashRest>>

\* the onboarding page is loaded
OnboardMount ==
    /\ PageLoad
    /\ location' = "/onboarding"
    /\ PageShows(UserEmailOf(sessionStorage, user'), localStorage)
    /\ obIsLoading' = FALSE
    /\ DashboardUnmounted

\* the Dashboard is loaded
DashboardMount ==
    /\ PageLoad
    /\ location' = "/dashboard"
    /\ DashboardShows(localStorage, sessionStorage)
    /\ PageUnmounted

\* navigate('/dashboard') called by the onboarding page
navigateDashboard(ls) ==
    IF location = "/onboarding"
    THEN /\ location' = "/dashboard"
         /\ DashboardShows(ls, sessionStorage)
         /\ PageUnmounted
    ELSE UNCHANGED <<location, dashUserEmail, databaseType, pageVars>>

\* the identity held by AuthProvider changed: a mounted OnboardingPage
\* renders again and, when userEmail differs, its effect runs
PageFollowsIdentity ==
    IF /\ location = "/onboarding"
       /\ UserEmailOf(sessionStorage', user') # userEmail
    THEN /\ PageShows(UserEmailOf(sessionStorage', user'), localStorage)
         /\ UNCHANGED obIsLoading
    ELSE UNCHANGED pageVars

setDatabase(d) ==
    /\ location = "/onboarding"
    /\ database' = d
    /\ toast' = "none"
    /\ UNCHANGED <<userEmail, schema, obIsLoading, onboardingCompleted,
                   localStorage, location, obUpload, dashUserEmail>>

setSchema(t) ==
    /\ location = "/onboarding"
    /\ schema' = t
    /\ toast' = "none"
    /\ UNCHANGED <<userEmail, database, obIsLoading, onboardingCompleted,
                   localStorage, location, obUpload, dashUserEmail>>

\* handleComplete up to its await fetch(...); at most one call is followed
handleComplete ==
    /\ location = "/onboarding"
    /\ ~obIsLoading
    /\ ~obUpload.pending
    /\ IF IsBlank(schema)
       THEN /\ toast' = "Please provide a schema or skip for now"
            /\ UNCHANGED <<obIsLoading, obUpload>>
       ELSE /\ obIsLoading' = TRUE
            /\ obUpload' = Upload(userEmail, database, schema, onboardingCompleted)
            /\ toast' = "none"
    /\ UNCHANGED <<userEmail, database, schema, onboardingCompleted,
                   localStorage, location, dashUserEmail>>

\* the two structured errors handleComplete returns early on
StructuredSchemaError(outcome) ==
    /\ outcome.kind = "http_error"
    /\ "detail" \in DOMAIN outcome.data
    /\ outcome.data.detail.type = "object"
    /\ outcome.data.detail.error \in {"schema_dialect_mismatch", "schema_parse_failed"}

\* early returns that leave isLoading as it is
IsLoadingKeptOnEarlyReturn(outcome) == StructuredSchemaError(outcome)

\* isLoading after a failed upload: setIsLoading(false) before each early
\* return, and in finally on the paths that throw
IsLoadingAfterFailure(outcome) == FALSE

\* the continuation of handleComplete after its fetch settles; the setters
\* of an unmounted page do nothing
uploadSettles(outcome) ==
    /\ obUpload.pending
    /\ toast' = UploadToast(outcome, obUpload.onboardingCompleted)
    /\ obUpload' = NoUpload
    /\ IF UploadSucceeded(outcome)
       THEN /\ localStorage' = SaveWrites(localStorage, obUpload.userEmail,
                                          obUpload.database, obUpload.schema)
            /\ IF ~obUpload.onboardingCompleted
               THEN navigateDashboard(localStorage')
               ELSE /\ UNCHANGED <<location, dashUserEmail, databaseType>>
                    /\ IF location = "/onboarding"
                       THEN /\ onboardingCompleted' = TRUE
                            /\ obIsLoading' = FALSE
                            /\ UNCHANGED <<userEmail, database, schema>>
                       ELSE UNCHANGED pageVars
       ELSE /\ UNCHANGED <<localStorage, location, dashUserEmail, databaseType>>
            /\ IF location = "/onboarding"
               THEN /\ obIsLoading' = IsLoadingAfterFailure(outcome)
                    /\ UNCHANGED <<userEmail, database, schema,
                                   onboardingCompleted>>
               ELSE UNCHANGED pageVars

\* handleSkip; the button is part of the view shown before completion
handleSkip ==
    /\ location = "/onboarding"
    /\ ~onboardingCompleted
    /\ localStorage' = SkipWrites(localStorage, userEmail, database)
    /\ navigateDashboard(localStorage')
    /\ toast' = "none"
    /\ UNCHANGED obUpload

----------------------------------------------------------------------------
(* QueryOutput                                                             *)

\* a prop that was not passed (undefined)
Undefined == "<undefined>"
\* suggestions?: { sql, title }[]
NoSuggestions == [defined |-> FALSE, items |-> <<>>]
Suggestions(items) == [defined |-> TRUE, items |-> items]

\* props the component is evaluated on
PropsSet ==
    [sql : {"", "SELECT 1"},
     explanation : {Undefined, "", "why"},
     suggestions : {NoSuggestions, Suggestions(<<>>),
                    Suggestions(<<[sql |-> "SELECT 2", title |-> "next"]>>),
                    Suggestions(<<[sql |-> "SELECT 2", title |-> "next"],
                                  [sql |-> "SELECT 3", title |-> "more"]>>)},
     isLoading : BOOLEAN,
     operation : OpCodes \cup {Undefined}]

\* a string prop used as a condition
Truthy(v) == v # Undefined /\ v # ""

\* what the component returned: the spinner, the placeholder (by its icon),
\* the suggestion cards (by their numbers), the SQL card, the explanation
\* card (and whether it carries a header)
NothingRendered ==
    [spinner |-> FALSE, placeholder |-> "none", cards |-> <<>>,
     sqlBlock |-> FALSE, explanationBlock |-> FALSE, explanationHeader |-> FALSE]

\* the icon of the placeholder
PlaceholderIcon(op) ==
    IF op = "suggest" THEN "Sparkles"
    ELSE IF op = "explain" THEN "MessageSquare" ELSE "Code"

\* the component of the source file without a suggestions prop: the prop is
\* not read, the placeholder never carries the suggestions icon, and the SQL
\* card is shown for every operation but explain, empty sql included
QueryOutputPlain(p) ==
    IF p.isLoading
    THEN [NothingRendered EXCEPT !.spinner = TRUE]
    ELSE IF ~Truthy(p.sql) /\ ~Truthy(p.explanation)
         THEN [NothingRendered EXCEPT
                  !.placeholder = IF p.operation = "explain"
                                  THEN "MessageSquare" ELSE "Code"]
         ELSE [NothingRendered EXCEPT
                  !.sqlBlock = (p.operation # "explain"),
                  !.explanationBlock = Truthy(p.explanation),
                  !.explanationHeader = (Truthy(p.explanation)
                                         /\ p.operation # "explain")]

\* the component without its suggestions branch
QueryOutputNoList(p) == QueryOutputPlain(p)

\* the component with the suggestions prop
QueryOutput(p) ==
    IF p.isLoading
    THEN [NothingRendered EXCEPT !.spinner = TRUE]
    ELSE IF /\ ~Truthy(p.sql)
            /\ ~Truthy(p.explanation)
            /\ (~p.suggestions.defined \/ Len(p.suggestions.items) = 0)
         THEN [NothingRendered EXCEPT !.placeholder = PlaceholderIcon(p.operation)]
         ELSE IF /\ p.operation = "suggest"
                 /\ p.suggestions.defined
                 /\ Len(p.suggestions.items) > 0
              THEN [NothingRendered EXCEPT
                       !.cards = [i \in 1..Len(p.suggestions.items) |-> i]]
              ELSE [NothingRendered EXCEPT
                       !.sqlBlock = (p.operation # "explain" /\ Truthy(p.sql)),
                       !.explanationBlock = Truthy(p.explanation),
                       !.explanationHeader = (Truthy(p.explanation)
                                              /\ p.operation # "explain")]

\* the component has not been evaluated
NotRendered == [pending |-> TRUE]

RenderIdle ==
    /\ renderProps = [sql |-> "", explanation |-> Undefined,
                      suggestions |-> NoSuggestions, isLoading |-> FALSE,
                      operation |-> Undefined]
    /\ rendered = NotRendered
    /\ outputVariant = "suggestions"

RenderInit ==
    /\ outputVariant \in {"suggestions", "plain"}
    /\ renderProps \in PropsSet
    /\ rendered = NotRendered

Render ==
    /\ rendered = NotRendered
    /\ rendered' = IF outputVariant = "suggestions"
                   THEN QueryOutput(renderProps)
                   ELSE QueryOutputPlain(renderProps)
    /\ UNCHANGED <<outputVariant, renderProps>>

----------------------------------------------------------------------------
(* Specifications                                                          *)

\* the Dashboard
Init == DashInit /\ ClampIdle /\ AuthIdle /\ WorkspaceIdle /\ RenderIdle
Next ==
    \/ \E op \in UrlOps : Navigate(op) /\ UNCHANGED <<clampVars, authVars, obVars, renderVars>>
    \/ \E v \in InputTexts : setInput(v) /\ UNCHANGED <<clampVars, authVars, obVars, renderVars>>
    \/ handleRunQuery /\ UNCHANGED <<clampVars, authVars, obVars, renderVars>>
    \/ \E i \in 1..Len(inFlight), o \in Outcomes :
           handleResponse(i, o) /\ UNCHANGED <<clampVars, authVars, obVars, renderVars>>
    \/ \E v \in TypedTexts :
           handleNumSuggestionsChange(v) /\ UNCHANGED <<clampVars, authVars, obVars, renderVars>>
    \/ handleNumSuggestionsBlur /\ UNCHANGED <<clampVars, authVars, obVars, renderVars>>
    \/ \E v \in NumberTexts :
           setNumSuggestions(v) /\ UNCHANGED <<clampVars, authVars, obVars, renderVars>>
Spec == Init /\ [][Next]_vars

\* getValidatedSuggestions on every string up to MaxClampLen
InitClamp == DashIdle /\ ClampInit /\ AuthIdle /\ WorkspaceIdle /\ RenderIdle
NextClamp == Validate /\ UNCHANGED <<dashVars, authVars, obVars, renderVars>>
SpecClamp == InitClamp /\ [][NextClamp]_vars

\* the AuthProvider
InitAuth == DashIdle /\ ClampIdle /\ AuthInit /\ WorkspaceIdle /\ RenderIdle
NextAuth ==
    \/ \E e \in Emails : signIn(e) /\ UNCHANGED <<dashVars, clampVars, obVars, renderVars>>
    \/ \E e \in Emails : signUp(e) /\ UNCHANGED <<dashVars, clampVars, obVars, renderVars>>
    \/ \E i \in 1..Len(authCalls), o \in AuthOutcomes :
           signInSettles(i, o) /\ UNCHANGED <<dashVars, clampVars, obVars, renderVars>>
    \/ \E i \in 1..Len(authCalls), o \in AuthOutcomes :
           signUpSettles(i, o) /\ UNCHANGED <<dashVars, clampVars, obVars, renderVars>>
    \/ signOut /\ UNCHANGED <<dashVars, clampVars, obVars, renderVars>>
SpecAuth == InitAuth /\ [][NextAuth]_vars

\* the onboarding page, the Dashboard's dialect lookup and the identity
\* changes they follow
AuthInitOnboard ==
    /\ AuthInit
    /\ sessionStorage \in {NoEntry, Entry(JSONstringify([email |-> "a@x.com"]))}

\* answers to /api/login followed in SpecOnboard
OnboardAuthOutcomes ==
    { o \in AuthOutcomes : o.kind = "ok" /\ "user" \notin DOMAIN o.data }

InitOnboard ==
    /\ DashIdle /\ ClampIdle /\ AuthInitOnboard /\ RenderIdle
    /\ localStorage = [k \in Suffixes |-> NoSettings]
    /\ location = "/onboarding"
    /\ toast = "none"
    /\ obUpload = NoUpload
    /\ dashUserEmail = "default"
    /\ userEmail = UserEmailOf(sessionStorage, user)
    /\ database = LoadSettings(localStorage, userEmail).database
    /\ schema = LoadSettings(localStorage, userEmail).schema
    /\ onboardingCompleted = LoadSettings(localStorage, userEmail).onboardingCompleted
    /\ obIsLoading = FALSE
NextOnboard ==
    \/ OnboardMount /\ UNCHANGED <<clampVars, renderVars>>
    \/ DashboardMount /\ UNCHANGED <<clampVars, renderVars>>
    \/ \E d \in DatabaseTypes :
           setDatabase(d) /\ UNCHANGED <<dashVars, clampVars, renderVars, authVars>>
    \/ \E t \in SchemaTexts :
           setSchema(t) /\ UNCHANGED <<dashVars, clampVars, renderVars, authVars>>
    \/ handleComplete /\ UNCHANGED <<dashVars, clampVars, renderVars, authVars>>
    \/ \E o \in UploadOutcomes :
           uploadSettles(o) /\ UNCHANGED <<dashRest, clampVars, renderVars, authVars>>
    \/ handleSkip /\ UNCHANGED <<dashRest, clampVars, renderVars, authVars>>
    \/ \E e \in Emails :
           /\ authCalls = <<>>
           /\ signIn(e)
           /\ toast' = "none"
           /\ UNCHANGED <<dashVars, clampVars, renderVars, localStorage, location, obUpload,
                          dashUserEmail, pageVars>>
    \/ \E o \in OnboardAuthOutcomes :
           /\ signInSettles(1, o)
           /\ PageFollowsIdentity
           /\ toast' = "none"
           /\ UNCHANGED <<dashVars, clampVars, renderVars, localStorage, location, obUpload,
                          dashUserEmail>>
    \/ /\ signOut
       /\ PageFollowsIdentity
       /\ toast' = "none"
       /\ UNCHANGED <<dashVars, clampVars, renderVars, localStorage, location, obUpload,
                      dashUserEmail>>
SpecOnboard == InitOnboard /\ [][NextOnboard]_vars


\* the three request cycles under the assumption that every outstanding
\* request is answered: sign-in and sign-up on the sign-in route, the schema
\* upload on the onboarding route, and the run on the Dashboard the
\* onboarding page navigates to
\* answers to /api/login and /api/signup followed in SpecRecover: a success,
\* a refusal and a request that never reached the server
RecoverAuthOutcomes ==
    { [kind |-> "ok", data |-> [status |-> "ok"]],
      [kind |-> "http_error", data |-> [message |-> Str("Bad credentials")]],
      [kind |-> "network_error", data |-> [status |-> "none"]] }

InitRecover ==
    /\ DashInit /\ searchParams = NoParam
    /\ ClampIdle /\ AuthIdle /\ RenderIdle
    /\ localStorage = [k \in Suffixes |-> NoSettings]
    /\ location \in {"/signin", "/onboarding"}
    /\ location = "/signin" => variant = "text"
    /\ toast = "none"
    /\ obUpload = NoUpload
    /\ dashUserEmail = "default"
    /\ userEmail = "default"
    /\ database = "mysql"
    /\ schema = <<>>
    /\ obIsLoading = FALSE
    /\ onboardingCompleted = FALSE

\* the answer to the outstanding run request arrives
RunRequestSettles ==
    \E i \in 1..Len(inFlight), o \in Outcomes :
        handleResponse(i, o) /\ UNCHANGED <<clampVars, authVars, obVars, renderVars>>

\* the answer to the outstanding /upload-schema request arrives
UploadRequestSettles ==
    \E o \in UploadOutcomes :
        uploadSettles(o) /\ UNCHANGED <<dashRest, clampVars, renderVars, authVars>>

\* the answer to an outstanding /api/login request arrives
SignInRequestSettles ==
    \E i \in 1..Len(authCalls), o \in RecoverAuthOutcomes :
        signInSettles(i, o) /\ UNCHANGED <<dashVars, clampVars, obVars, renderVars>>

\* the answer to an outstanding /api/signup request arrives
SignUpRequestSettles ==
    \E i \in 1..Len(authCalls), o \in RecoverAuthOutcomes :
        signUpSettles(i, o) /\ UNCHANGED <<dashVars, clampVars, obVars, renderVars>>

NextRecover ==
    \/ \E v \in InputTexts :
           /\ location = "/dashboard"
           /\ setInput(v)
           /\ UNCHANGED <<clampVars, authVars, obVars, renderVars>>
    \/ /\ location = "/dashboard"
       /\ handleRunQuery
       /\ UNCHANGED <<clampVars, authVars, obVars, renderVars>>
    \/ RunRequestSettles
    \/ \E t \in SchemaTexts :
           setSchema(t) /\ UNCHANGED <<dashVars, clampVars, renderVars, authVars>>
    \/ handleComplete /\ UNCHANGED <<dashVars, clampVars, renderVars, authVars>>
    \/ UploadRequestSettles
    \/ handleSkip /\ UNCHANGED <<dashRest, clampVars, renderVars, authVars>>
    \/ \E e \in Emails :
           /\ location = "/signin"
           /\ signIn(e)
           /\ UNCHANGED <<dashVars, clampVars, obVars, renderVars>>
    \/ \E e \in Emails :
           /\ location = "/signin"
           /\ signUp(e)
           /\ UNCHANGED <<dashVars, clampVars, obVars, renderVars>>
    \/ SignInRequestSettles
    \/ SignUpRequestSettles

\* every request that is outstanding is answered
RequestsSettle ==
    /\ WF_vars(RunRequestSettles)
    /\ WF_vars(UploadRequestSettles)
    /\ WF_vars(SignInRequestSettles)
    /\ WF_vars(SignUpRequestSettles)

SpecRecover == InitRecover /\ [][NextRecover]_vars /\ RequestsSettle

\* the QueryOutput component on every combination of props
InitRender == DashIdle /\ ClampIdle /\ AuthIdle /\ WorkspaceIdle /\ RenderInit
NextRender == Render /\ UNCHANGED <<dashVars, clampVars, authVars, obVars>>
SpecRender == InitRender /\ [][NextRender]_vars

----------------------------------------------------------------------------
(* Properties                                                              *)

\* C1: in every reachable state the operation is one of the six codes, and
\* it is `generate` whenever the URL carries no op parameter or an op value
\* outside the six codes.
C1_OperationAlwaysKnown ==
    /\ operation \in OpCodes
    /\ searchParams \notin OpCodes => operation = "generate"

\* C2: every outstanding request for operation `suggest`, in either variant,
\* carries an integer max_suggestions between 1 and 10.
C2_MaxSuggestionsInRange ==
    \A i \in 1..Len(inFlight) :
        inFlight[i].operation = "suggest" =>
            /\ "max_suggestions" \in DOMAIN inFlight[i].payload
            /\ inFlight[i].payload.max_suggestions \in 1..10

\* Reference reading of a string as parseInt reads it, by positions: the
\* leading blanks, an optional sign, the run of digits that follows.
RefBlanks(s) ==
    CHOOSE k \in 0..Len(s) :
        /\ \A i \in 1..k : s[i] = " "
        /\ k = Len(s) \/ s[k + 1] # " "
RefSigned(s) == RefBlanks(s) < Len(s) /\ s[RefBlanks(s) + 1] \in {"+", "-"}
RefStart(s) == RefBlanks(s) + (IF RefSigned(s) THEN 2 ELSE 1)
RefRun(s) ==
    CHOOSE m \in 0..(Len(s) + 1 - RefStart(s)) :
        /\ \A i \in RefStart(s)..(RefStart(s) + m - 1) : s[i] \in Digits
        /\ RefStart(s) + m > Len(s) \/ s[RefStart(s) + m] \notin Digits
RECURSIVE RefPow10(_)
RefPow10(n) == IF n = 0 THEN 1 ELSE 10 * RefPow10(n - 1)
RECURSIVE RefSum(_, _, _)
RefSum(s, from, m) ==
    IF m = 0 THEN 0
    ELSE DigitValue(s[from]) * RefPow10(m - 1) + RefSum(s, from + 1, m - 1)
RefValue(s) ==
    (IF RefSigned(s) /\ s[RefBlanks(s) + 1] = "-" THEN -1 ELSE 1)
        * RefSum(s, RefStart(s), RefRun(s))
RefClamp(s) ==
    IF s = <<>> \/ RefRun(s) = 0 THEN 5
    ELSE IF RefValue(s) < 1 THEN 1
    ELSE IF RefValue(s) > 10 THEN 10
    ELSE RefValue(s)

\* C3: getValidatedSuggestions(s) is 5 when s is empty or has no integer to
\* parse, and otherwise the parsed integer clamped to [1, 10]; "" gives 5,
\* "0" gives 1, "15" gives 10 and "7" gives 7.
C3_ClampTotal ==
    clampOut # <<>> =>
        /\ clampOut[1] = RefClamp(clampArg)
        /\ clampArg = <<>> => clampOut[1] = 5
        /\ clampArg = <<"0">> => clampOut[1] = 1
        /\ clampArg = <<"1", "5">> => clampOut[1] = 10
        /\ clampArg = <<"7">> => clampOut[1] = 7

\* C3 witness: "15" has been clamped to 10
C3_Witness == clampArg = <<"1", "5">> /\ clampOut = <<10>>

AllWhiteSpace(text) == \A i \in 1..Len(text) : text[i] = " "

\* C4: a run on an empty or whitespace-only input sends no request, leaves
\* isLoading false and sets error to the fixed validation message.
C4_BlankRunRejected ==
    [][ (AllWhiteSpace(input) /\ handleRunQuery) =>
            /\ inFlight' = inFlight
            /\ isLoading' = FALSE
            /\ error' = "Please enter a query or description" ]_vars

\* C4 witness: a whitespace-only input has been rejected while a result of
\* an earlier run is on display
C4_Witness ==
    /\ input = <<" ">>
    /\ error = "Please enter a query or description"
    /\ output # NullOutput
    /\ ~isLoading

SwitchIdempotent ==
    \A op \in UrlOps :
        useEffectSearchParams(op, useEffectSearchParams(op, DashState))
            = useEffectSearchParams(op, DashState)

\* C5: when a new op value arrives in the URL, operation becomes that value
\* and input, output and error become empty, whatever they were; applying
\* the same switch to the result changes nothing.
C5_SwitchClears ==
    [][ (searchParams' # searchParams /\ searchParams' # NoParam) =>
            /\ operation' = searchParams'
            /\ input' = <<>>
            /\ output' = NullOutput
            /\ error' = ""
            /\ SwitchIdempotent ]_vars

\* C5 witness: the operation was switched after a run had started, and the
\* switch left input, output and error empty
C5_Witness ==
    /\ inFlight # <<>>
    /\ inFlight[1].operation # operation
    /\ searchParams = operation
    /\ input = <<>> /\ output = NullOutput /\ error = ""

\* C6: a response that arrives after the operation was switched changes
\* neither output nor error.
C6_LateResponseIgnored ==
    [][ (Len(inFlight') < Len(inFlight) /\ inFlight[1].operation # operation) =>
            (output' = output /\ error' = error) ]_vars

\* C7: at most one run request is outstanding, and isLoading is true for as
\* long as one is.
C7_SingleRunInFlight ==
    /\ Len(inFlight) <= 1
    /\ inFlight # <<>> => isLoading

\* C7 witness: a request is outstanding across an operation switch, and the
\* run control is still disabled
C7_Witness ==
    /\ Len(inFlight) = 1
    /\ inFlight[1].operation # operation
    /\ isLoading

\* what a result may hold when it comes from the response body `data` alone
OnlyFromResponse(out, data) ==
    /\ out # NullOutput
    /\ "sql" \in DOMAIN out =>
           out.sql \in {""} \cup {data[f] : f \in DOMAIN data \cap {"sql"}}
    /\ out.explanation \in
           {""} \cup {data[f] : f \in DOMAIN data \cap {"explanation", "notes"}}
    /\ "suggestions" \in DOMAIN out =>
           out.suggestions \in
               {<<>>} \cup {data[f] : f \in DOMAIN data \cap {"queries"}}

\* C8: while a run request is outstanding output is empty, and when it
\* resolves output holds data of that response only, or stays empty when
\* the run failed.
C8_RunDiscardsPrevious ==
    [][ /\ inFlight' # <<>> => output' = NullOutput
        /\ \A o \in Outcomes :
               (Len(inFlight') < Len(inFlight) /\ handleResponse(1, o)) =>
                   IF o.kind = "ok" THEN OnlyFromResponse(output', o.data)
                   ELSE output' = NullOutput ]_vars

\* C8 witness: a run has resolved with a response that carried no sql and
\* no explanation, and its (empty) fields are what output holds
C8_Witness ==
    /\ ~isLoading
    /\ output = [sql |-> "", explanation |-> ""]
    /\ error = ""

\* C9: whenever error is non-empty and no request is outstanding, output is
\* empty.
C9_ErroredHasNoOutput ==
    (error # "" /\ inFlight = <<>> /\ ~isLoading) => output = NullOutput

\* C10: when a signIn call resolves, the current user is the response's
\* user object, or {email: <submitted email>} when the body has none, and
\* the auth_user entry parses back to that same identity.
C10_SignInStoresIdentity ==
    [][ \A i \in 1..Len(authCalls), o \in AuthOutcomes :
            (o.kind = "ok" /\ Len(authCalls') < Len(authCalls)
                           /\ signInSettles(i, o)) =>
                LET expected == IF "user" \in DOMAIN o.data THEN o.data.user
                                ELSE [email |-> authCalls[i].email]
                IN  /\ user' = expected
                    /\ sessionStorage'.present
                    /\ JSONparse(sessionStorage'.text) = expected ]_vars

\* C10 witness: a signIn whose response carried a user object for another
\* address than the submitted one has resolved
C10_Witness ==
    /\ authLast.fn = "signIn" /\ authLast.result = "resolved"
    /\ "user" \in DOMAIN authLast.data
    /\ authLast.data.user.email # authLast.email
    /\ user = authLast.data.user
    /\ sessionStorage = Entry(JSONstringify(authLast.data.user))

\* the message the server put in an error body, "" when it put none
ServerProvided(errorData) ==
    IF "detail" \in DOMAIN errorData THEN errorData.detail.text
    ELSE IF "message" \in DOMAIN errorData THEN errorData.message.text
         ELSE ""

\* C11: a signIn whose request failed or was answered with a non-success
\* status rejects with the server's message when the body carries one and
\* with "Login failed" otherwise, and leaves user and the auth_user entry
\* as they were.
C11_SignInFailureMessage ==
    [][ \A i \in 1..Len(authCalls), o \in AuthOutcomes :
            (o.kind \in {"http_error", "network_error"} /\ signInSettles(i, o)) =>
                /\ authLast'.result = "rejected"
                /\ authLast'.message =
                       (IF o.kind = "http_error" /\ ServerProvided(o.data) # ""
                        THEN ServerProvided(o.data)
                        ELSE "Login failed")
                /\ UNCHANGED <<user, sessionStorage>> ]_vars

\* C12: neither the step that starts a signUp call nor the step in which a
\* signUp call settles, resolved or rejected, changes user or the auth_user
\* entry.
C12_SignUpKeepsIdentity ==
    [][ /\ ( /\ Len(authCalls') > Len(authCalls)
             /\ authCalls'[Len(authCalls')].fn = "signUp" ) =>
               UNCHANGED <<user, sessionStorage>>
        /\ \A i \in 1..Len(authCalls) :
               ( /\ authCalls[i].fn = "signUp"
                 /\ authCalls' = RemoveAt(authCalls, i) ) =>
                   UNCHANGED <<user, sessionStorage>> ]_vars

\* C12 witness: a signUp whose response carried a user object has resolved
\* and nobody is signed in
C12_Witness ==
    /\ authLast.fn = "signUp" /\ authLast.result = "resolved"
    /\ "user" \in DOMAIN authLast.data
    /\ authCalls = <<>>
    /\ user = NoUser
    /\ sessionStorage = NoEntry

\* C13: signOut can be called in every state of a constructed provider, and
\* it leaves user null and the auth_user entry removed.
C13_SignOutClears ==
    /\ [](~authThrew => ENABLED signOut)
    /\ [][ signOut => (user' = NoUser /\ sessionStorage' = NoEntry) ]_vars

\* C13 witness: a signIn had resolved, and after signOut nobody is signed in
\* although another call is still awaiting its response
C13_Witness ==
    /\ authLast.fn = "signIn" /\ authLast.result = "resolved"
    /\ authCalls # <<>>
    /\ user = NoUser
    /\ sessionStorage = NoEntry

\* C14: when the auth_user entry is absent or is not parseable JSON the
\* provider is constructed without an error, with user null.
C14_ConstructionNeverThrows ==
    (~sessionStorage.present \/ ~IsJSON(sessionStorage.text)) =>
        (~authThrew /\ user = NoUser)

\* C15: when a signIn resolves that was already awaiting its response while
\* another signIn resolved, user and the auth_user entry become those of
\* this later response, whichever of the two calls was started first.
C15_LastResponseWins ==
    [][ \A i \in 1..Len(authCalls), o \in AuthOutcomes :
            ( /\ authLast.fn = "signIn" /\ authLast.result = "resolved"
              /\ i <= authLast.others
              /\ o.kind = "ok"
              /\ signInSettles(i, o) ) =>
                /\ user' = UserDataOf(o.data, authCalls[i].email)
                /\ sessionStorage' = Entry(JSONstringify(user')) ]_vars

\* C15 witness: two overlapping signIn calls have both resolved with
\* different identities and the later response's identity is the current one
C15_Witness ==
    /\ authLast.fn = "signIn" /\ authLast.result = "resolved"
    /\ authLast.over # NoUser
    /\ authLast.over # UserDataOf(authLast.data, authLast.email)
    /\ authCalls = <<>>
    /\ user = UserDataOf(authLast.data, authLast.email)
    /\ sessionStorage = Entry(JSONstringify(user))

\* what the page state of the onboarding page holds
PageSettings(db, sc, completed) ==
    [database |-> db, schema |-> sc, onboardingCompleted |-> completed]

\* the settings a reader finds under key suffix b: the stored values, and
\* mysql / empty schema / not completed for the keys that are not set
StoredUnder(ls, b) ==
    PageSettings(IF ls[b].selected_db = Null THEN "mysql" ELSE ls[b].selected_db,
                 IF ls[b].last_schema.present THEN ls[b].last_schema.text ELSE <<>>,
                 ls[b].onboarding_completed = "true")

\* C16: when an upload started under email e with dialect d and schema s
\* succeeds, a mount of the onboarding page under e in the resulting storage
\* starts with database d, schema s and onboardingCompleted true; and every
\* mount starts with what the storage holds under its email.
C16_SaveRoundTrip ==
    [][ /\ \A o \in UploadOutcomes :
               (obUpload.pending /\ o.kind = "ok" /\ uploadSettles(o)) =>
                   LoadSettings(localStorage', obUpload.userEmail) =
                       PageSettings(obUpload.database, obUpload.schema, TRUE)
        /\ OnboardMount =>
               PageSettings(database', schema', onboardingCompleted') =
                   LoadSettings(localStorage, userEmail') ]_vars

\* C16 witness: the page, loaded afresh under a@x.com, shows the dialect and
\* schema saved before, as completed
C16_Witness ==
    /\ location = "/onboarding"
    /\ authLast = NoSettled /\ toast = "none" /\ ~obIsLoading
    /\ userEmail = "a@x.com"
    /\ localStorage["a@x.com"].last_schema = Entry(<<"s">>)
    /\ PageSettings(database, schema, onboardingCompleted) =
           PageSettings("postgresql", <<"s">>, TRUE)

\* C17: a skip or a successful save made under one email leaves the keys of
\* every other suffix as they were, and whenever the page mounts or its
\* identity changes it shows what is stored under the new email alone
\* (mysql, empty schema, not completed when nothing is stored under it).
C17_IdentityIsolation ==
    [][ /\ \A b \in Suffixes :
               (b # userEmail /\ handleSkip) => localStorage'[b] = localStorage[b]
        /\ \A b \in Suffixes, o \in UploadOutcomes :
               (obUpload.pending /\ b # obUpload.userEmail /\ uploadSettles(o)) =>
                   localStorage'[b] = localStorage[b]
        /\ (location' = "/onboarding" /\ (userEmail' # userEmail \/ OnboardMount)) =>
               PageSettings(database', schema', onboardingCompleted') =
                   StoredUnder(localStorage', userEmail') ]_vars

\* C17 witness: settings were saved under a@x.com, then b@y.com signed in on
\* the same mounted page, which shows the defaults
C17_Witness ==
    /\ location = "/onboarding"
    /\ authLast.fn = "signIn" /\ authLast.email = "b@y.com"
    /\ user = [email |-> "b@y.com"]
    /\ userEmail = "b@y.com"
    /\ localStorage["a@x.com"].selected_db = "postgresql"
    /\ localStorage["a@x.com"].last_schema = Entry(<<"s">>)
    /\ localStorage["b@y.com"] = NoSettings
    /\ PageSettings(database, schema, onboardingCompleted) =
           PageSettings("mysql", <<>>, FALSE)

\* C18: when an upload fails (dialect mismatch, parse failure, any other
\* error status, a failed request, an unreadable body) none of the stored
\* keys changes, onboardingCompleted and the schema text stay as they were,
\* the route stays, and isLoading is false afterwards.
C18_UploadFailureKeepsState ==
    [][ \A o \in UploadOutcomes :
            (obUpload.pending /\ o.kind # "ok" /\ uploadSettles(o)) =>
                /\ localStorage' = localStorage
                /\ onboardingCompleted' = onboardingCompleted
                /\ location' = location
                /\ schema' = schema
                /\ obIsLoading' = FALSE ]_vars

\* C18 witness: a first upload was just answered with a dialect mismatch
C18_Witness ==
    /\ toast = "Schema Dialect Mismatch"
    /\ location = "/onboarding"
    /\ ~obIsLoading /\ ~obUpload.pending
    /\ schema = <<"s">>
    /\ ~onboardingCompleted
    /\ localStorage[userEmail] = NoSettings

\* C19: while nobody is signed in, a mounted onboarding page works under the
\* suffix 'default', and a Dashboard that mounts looks its dialect up under
\* 'default'.
C19_SignedOutReadsDefault ==
    [][ user' = NoUser =>
            /\ location' = "/onboarding" => userEmail' = "default"
            /\ (location' = "/dashboard" /\ (location # "/dashboard" \/ DashboardMount))
                   => dashUserEmail' = "default" ]_vars

\* C19 witness: a@x.com stored postgresql and signed out; the Dashboard
\* mounted after that found mysql under 'default'
C19_Witness ==
    /\ user = NoUser
    /\ location = "/dashboard"
    /\ dashUserEmail = "default"
    /\ databaseType = "mysql"
    /\ localStorage["a@x.com"].selected_db = "postgresql"
    /\ localStorage["default"] = NoSettings

\* the display modes a rendering shows
ModesShown(v) ==
    {m \in {"loading", "placeholder", "panel", "list"} :
        \/ m = "loading" /\ v.spinner
        \/ m = "placeholder" /\ v.placeholder # "none"
        \/ m = "panel" /\ (v.sqlBlock \/ v.explanationBlock)
        \/ m = "list" /\ v.cards # <<>>}

\* C20: whatever the props, the component shows exactly one of the loading
\* view, the placeholder, the SQL-plus-explanation panel and the suggestions
\* list, and the loading view whenever isLoading is true.
C20_ExactlyOneMode ==
    rendered # NotRendered =>
        /\ Cardinality(ModesShown(rendered)) = 1
        /\ renderProps.isLoading => ModesShown(rendered) = {"loading"}

\* the props carry a non-empty suggestions list under operation suggest
SuggestListProps(p) ==
    /\ p.operation = "suggest"
    /\ p.suggestions.defined
    /\ Len(p.suggestions.items) > 0

\* the numbered list 1..n of the n suggestions of the props
NumberedList(p) == [i \in 1..Len(p.suggestions.items) |-> i]

\* C21 as stated: under operation explain no SQL block is shown, whatever
\* the sql prop; under operation suggest with a non-empty suggestions list
\* the numbered list is shown and no single SQL block. (The component
\* without a suggestions prop has only the first half.)
C21_ExplainAndSuggestBlocks ==
    rendered # NotRendered =>
        /\ renderProps.operation = "explain" => ~rendered.sqlBlock
        /\ (outputVariant = "suggestions" /\ SuggestListProps(renderProps)) =>
               /\ rendered.cards = NumberedList(renderProps)
               /\ ~rendered.sqlBlock

\* C21 amended: the suggestions list is shown under operation suggest with a
\* non-empty list when isLoading is false; while isLoading is true the
\* spinner replaces it. The explain half holds as stated.
C21_ExplainAndSuggestBlocksIdle ==
    rendered # NotRendered =>
        /\ renderProps.operation = "explain" => ~rendered.sqlBlock
        /\ (outputVariant = "suggestions" /\ SuggestListProps(renderProps)) =>
               /\ ~rendered.sqlBlock
               /\ ~renderProps.isLoading =>
                      rendered.cards = NumberedList(renderProps)

C21_Witness ==
    /\ rendered # NotRendered
    /\ outputVariant = "suggestions"
    /\ SuggestListProps(renderProps)
    /\ ~renderProps.isLoading
    /\ renderProps.sql = "SELECT 1"
    /\ Len(rendered.cards) = 2

\* the member of a response body, or the given default when it is absent
MemberOr(data, key, dflt) == IF key \in DOMAIN data THEN data[key] ELSE dflt

\* C22: when a run's request succeeds, output becomes: for a run of
\* operation suggest, suggestions = the body's queries (the empty list when
\* absent) and explanation = the body's notes (the empty string when
\* absent); for a run of any other operation, sql and explanation = the
\* body's fields of those names (the empty string when absent); error is
\* empty and isLoading is false.
C22_NormalizedResult ==
    [][ \A o \in Outcomes :
            (o.kind = "ok" /\ Len(inFlight') < Len(inFlight)
                           /\ handleResponse(1, o)) =>
                /\ output' =
                       IF inFlight[1].operation = "suggest"
                       THEN [suggestions |-> MemberOr(o.data, "queries", <<>>),
                             explanation |-> MemberOr(o.data, "notes", "")]
                       ELSE [sql |-> MemberOr(o.data, "sql", ""),
                             explanation |-> MemberOr(o.data, "explanation", "")]
                /\ error' = ""
                /\ ~isLoading' ]_vars

\* C22 witness: a suggest run succeeded with a body that has neither queries
\* nor notes
C22_Witness ==
    /\ operation = "suggest"
    /\ searchParams = "suggest"
    /\ inFlight = <<>>
    /\ ~isLoading
    /\ output = [suggestions |-> <<>>, explanation |-> ""]
    /\ error = ""

\* C23: for each of the six operation codes a run with non-blank input sends
\* one request; exactly one of question / sql is in its payload and carries
\* the input; max_suggestions is in the payload exactly when the operation
\* is suggest; a request to the generate-sql endpoint carries the input in
\* question.
C23_MappingTotal ==
    [][ (operation \in OpCodes /\ ~isLoading /\ isLoading') =>
            /\ Len(inFlight') = Len(inFlight) + 1
            /\ LET r == inFlight'[Len(inFlight')]
                   carriers == {"question", "sql"} \cap DOMAIN r.payload
               IN  /\ Cardinality(carriers) = 1
                   /\ \A k \in carriers : r.payload[k] = input
                   /\ ("max_suggestions" \in DOMAIN r.payload)
                          <=> (operation = "suggest")
                   /\ r.endpoint[2] = "/generate-sql" =>
                          "question" \in DOMAIN r.payload ]_vars

\* the decimal numeral of a count between 1 and 10
DecimalText(n) == IF n = 10 THEN <<"1", "0">> ELSE <<DigitChar(n)>>

\* C24: a blur of the suggestion-count field replaces its text by the
\* decimal numeral of the clamped value of that text ("12" gives "10", ""
\* gives "5", "0" gives "1"); a suggest run started while the field is still
\* as the latest blur or run left it sends the number the field displays as
\* max_suggestions, and leaves the display as it is.
C24_BlurThenRunSendsDisplayed ==
    [][ /\ handleNumSuggestionsBlur =>
              /\ numSuggestionsInput' = DecimalText(RefClamp(numSuggestionsInput))
              /\ numSuggestionsInput = <<"1", "2">> => numSuggestionsInput' = <<"1", "0">>
              /\ numSuggestionsInput = <<>> => numSuggestionsInput' = <<"5">>
              /\ numSuggestionsInput = <<"0">> => numSuggestionsInput' = <<"1">>
        /\ (variant = "text" /\ numSuggestionsWasValidated
                /\ operation = "suggest" /\ ~isLoading /\ isLoading') =>
              /\ numSuggestionsInput' = numSuggestionsInput
              /\ LET r == inFlight'[Len(inFlight')]
                 IN  /\ r.payload.max_suggestions \in 1..10
                     /\ DecimalText(r.payload.max_suggestions) = numSuggestionsInput
      ]_vars

\* C24 witness: the field was left at "12", the blur displayed "10", and the
\* run that followed is outstanding with max_suggestions 10
C24_Witness ==
    /\ variant = "text"
    /\ operation = "suggest"
    /\ numSuggestionsInput = <<"1", "0">>
    /\ numSuggestionsWasValidated
    /\ Len(inFlight) = 1
    /\ inFlight[1].operation = "suggest"
    /\ inFlight[1].payload.max_suggestions = 10

\* C26: isLoading and a non-empty error never hold together; an error
\* message is on display only when no run request is outstanding.
C26_NoErrorWhileLoading ==
    /\ ~(isLoading /\ error # "")
    /\ error # "" => inFlight = <<>>

\* C26 witness: a run is outstanding after the URL changed the operation,
\* and no message is on display
C26_Witness ==
    /\ isLoading
    /\ Len(inFlight) = 1
    /\ inFlight[1].operation = "fix"
    /\ operation = "explain"
    /\ error = ""

\* the text of the count field is the numeral of a count between 1 and 10
DisplaysCount == \E n \in 1..10 : numSuggestionsInput = DecimalText(n)

\* C29: showVisualError is true in no reachable state; whenever the
\* validated flag is set the text is a numeral of 1..10, a blur or run
\* leaves such a numeral, and a keystroke clears the flag.
C29_NoVisualError ==
    /\ [](~showVisualError)
    /\ [](numSuggestionsWasValidated => DisplaysCount)
    /\ [][ /\ (handleNumSuggestionsBlur \/ (~isLoading /\ isLoading' /\ variant = "text"))
                  => (numSuggestionsWasValidated' /\ DisplaysCount')
           /\ \A v \in TypedTexts :
                  handleNumSuggestionsChange(v) => ~numSuggestionsWasValidated'
         ]_vars

\* C29 witness: a run validated the field, and while its request is
\* outstanding an out-of-range text was typed: the flag is clear
C29_Witness ==
    /\ variant = "text"
    /\ operation = "suggest"
    /\ numSuggestionsInput = <<"1", "5">>
    /\ ~numSuggestionsWasValidated
    /\ isCurrentlyInvalid
    /\ isLoading

\* C27: for a provider whose construction succeeded, after any interleaving
\* of signIn, signUp and signOut calls and of their responses, user is
\* present exactly when the auth_user entry is present, and the entry then
\* parses to user.
C27_IdentityMatchesEntry ==
    ~authThrew =>
        /\ (user # NoUser) <=> sessionStorage.present
        /\ sessionStorage.present =>
               /\ IsJSON(sessionStorage.text)
               /\ JSONparse(sessionStorage.text) = user

\* C27 witness: of two overlapping signIn calls the later response replaced
\* the identity the earlier one had stored
C27_Witness ==
    /\ user # NoUser
    /\ sessionStorage.present
    /\ authLast.fn = "signIn"
    /\ authLast.result = "resolved"
    /\ authLast.over # NoUser
    /\ authLast.over # user
    /\ authCalls = <<>>

\* C28: the provider's isLoading is true exactly while at least one signIn
\* or signUp request is outstanding.
C28_LoadingWhileOutstanding ==
    ~authThrew => (authIsLoading <=> authCalls # <<>>)

\* a non-empty schema text is stored under the suffix
SchemaStored(ls, k) == ls[k].last_schema.present /\ ls[k].last_schema.text # <<>>

\* C30: for every key suffix, a non-empty stored last_schema implies that
\* onboarding_completed is 'true'; last_schema changes only in the step in
\* which an outstanding upload settles, together with the flag being
\* 'true'; and a flag that is 'true' stays 'true'.
C30_SchemaImpliesCompleted ==
    /\ [](\A k \in Suffixes :
              SchemaStored(localStorage, k) =>
                  localStorage[k].onboarding_completed = "true")
    /\ [][ \A k \in Suffixes :
               /\ localStorage'[k].last_schema # localStorage[k].last_schema =>
                      /\ obUpload.pending /\ ~obUpload'.pending
                      /\ k = KeySuffix(obUpload.userEmail)
                      /\ toast' \in {"Schema Uploaded with Warning",
                                     "Schema updated successfully!",
                                     "Onboarding completed!"}
                      /\ localStorage'[k].onboarding_completed = "true"
               /\ localStorage[k].onboarding_completed = "true" =>
                      localStorage'[k].onboarding_completed = "true" ]_vars

\* C30 witness: a schema was saved for a@x.com, a later save of the same
\* identity failed, and 'default' was completed by a skip
C30_Witness ==
    /\ SchemaStored(localStorage, "a@x.com")
    /\ localStorage["a@x.com"].onboarding_completed = "true"
    /\ toast = "Upload Failed"
    /\ localStorage["default"].onboarding_completed = "true"
    /\ ~SchemaStored(localStorage, "default")

\* C25: provided every outstanding request is answered, each isLoading flag
\* that is true becomes false again: the Dashboard's (and with it the run
\* button is enabled), the onboarding page's, whatever the answer to the
\* upload, the structured schema errors included, and the AuthProvider's.
C25_EveryFlagClears ==
    /\ isLoading ~> (~isLoading /\ RunEnabled)
    /\ obIsLoading ~> ~obIsLoading
    /\ authIsLoading ~> ~authIsLoading

\* C25 witness: an upload was answered with the schema_dialect_mismatch
\* error; the page is still shown and its isLoading is false again
C25_Witness ==
    /\ location = "/onboarding"
    /\ toast = "Schema Dialect Mismatch"
    /\ ~obIsLoading
    /\ ~obUpload.pending
    /\ ~IsBlank(schema)

====
